---- MODULE Spec2Model ----
(***************************************************************************)
(* Model of the Zebra Tool playback engine (src/app.py, class VideoWorker) *)
(* driven by a control thread.  The engine thread is VideoWorker.run, cut  *)
(* into steps at every access to a field the control thread also touches;  *)
(* the control thread issues the VideoWorker commands.  Sections of code   *)
(* executed under QMutexLocker(self._mutex) by the engine are single steps *)
(* enabled only while the mutex is free; the control thread's multi-field  *)
(* sections (set_params, seek_to) hold the mutex across their steps.       *)
(* Optional integers (Python None or an int) are sets: {} or {i}.          *)
(***************************************************************************)
EXTENDS Integers, Sequences, FiniteSets, TLC

VARIABLES
    \* ---- VideoWorker fields (src/app.py:33-47) and the capture -----------
    cap,            \* _cap: path of the open capture, or None
    cap_pos,        \* CAP_PROP_POS_FRAMES of the open capture
    handles,        \* number of captures opened and not yet released
    running,        \* _running
    pause,          \* _pause
    phase,          \* _phase
    params,         \* _params (ProcParams)
    mutex,          \* _mutex: "free", "ctl" (held by the control thread) or "eng"
    seek_to,        \* _seek_to: {} or {frame}
    frame_idx,      \* _frame_idx
    pending_open,   \* _pending_open: path or None
    frame_count,    \* _frame_count
    loop_enabled,   \* _loop_enabled
    loop_a,         \* _loop_a: {} or {frame}
    loop_b,         \* _loop_b: {} or {frame}
    \* ---- engine thread: position in run() and its locals ------------------
    pc, path_req, st, frame, p,
    kept,           \* the value getattr(...) returned at app.py:108-110
    \* ---- control thread: position inside a command and its locals ---------
    cpc, carg,
    \* ---- observation of emitted events and of the run so far --------------
    ev,             \* the event emitted by the engine's latest step
    obs,            \* history facts the properties read (never read by the code)
    watch,          \* the history facts this specification records
    \* ---- MainWindow (src/app.py:462-463, 474, 523-524) --------------------
    win,            \* _loop_a, _loop_b, loopChk, blackSlider, whiteSlider
    \* ---- ExportWorker (src/app.py:362-432) and its output file ------------
    exporter,
    \* ---- processing.py: the call of a pure function and what it returned --
    call

vars == <<cap, cap_pos, handles, running, pause, phase, params, mutex, seek_to,
          frame_idx, pending_open, frame_count, loop_enabled, loop_a, loop_b,
          pc, path_req, st, frame, p, cpc, carg, ev, obs, watch, win, exporter,
          kept, call>>

engineFields == <<cap, cap_pos, handles, phase, frame_idx, frame_count>>
engineLocals == <<path_req, st, frame, p>>
loopFields   == <<loop_enabled, loop_a, loop_b>>
ctlLocals    == <<cpc, carg>>
\* What the steps of run() outside app.py:108-110 and the VideoWorker commands
\* never touch.
others       == <<watch, win, exporter, kept, call>>
othersButWin == <<watch, exporter, kept, call>>
othersButKept == <<watch, win, exporter, call>>

None == "None"

\* ------------------------------------------------------------------------
\* Bounds of the model
\* ------------------------------------------------------------------------
\* Frames a source can deliver before cap.read() reports end-of-stream.
MaxFrames == 2
\* The engine renders only while the phase is below this; seek and open reset
\* the phase, so it bounds the frames played between two resets.
MaxPhase == 4

\* ------------------------------------------------------------------------
\* Program constants
\* ------------------------------------------------------------------------
\* Keyboard threshold nudges per run.
MaxNudges == 1

\* zebra_overlay's style defaults: period, duty, alpha in percent
\* (processing.py:33).
Period == 14
Duty == 6
AlphaPct == 55

\* Modulus of the export's phase counter (app.py:413).
ExportPhaseMod == 10000
PhaseMod == 10000
DefaultBlack == 16
DefaultWhite == 235
\* Ranges of the black and white sliders (app.py:523-524).
BlackMin == 0
BlackMax == 254
WhiteMin == 1
WhiteMax == 255
DefaultPhaseStep == 2

\* ------------------------------------------------------------------------
\* The video files the control thread can name
\* ------------------------------------------------------------------------
Paths == {"bad", "clipK", "clipU"}

\* cv2.VideoCapture(path).isOpened()
Openable(path) == path # "bad"

\* int(cap.get(CAP_PROP_FRAME_COUNT)) or 0: clipU's container reports no count,
\* clipS's header reports one frame less than the stream holds.
CountOf(path) ==
    CASE path = "clipK" -> MaxFrames
      [] path = "clipS" -> MaxFrames - 1
      [] OTHER -> 0

\* Number of frames cap.read() delivers from position 0.
ReadableOf(path) == MaxFrames

\* Sources and destinations an export is started with.
ExportInputs == {"bad", "clipK", "clipU", "clipS"}
ExportOutputs == {"outOk", "outBad"}

\* cv2.VideoWriter(path, ...).isOpened()
Writable(path) == path # "outBad"

\* Pixels per luma array.
MaxPixels == 2

\* Luma values of a pixel (BT.709 luma of a uint8 frame lies in 0..255) and
\* the arrays of up to MaxPixels of them.
Lumas == {0, DefaultBlack, 100, DefaultWhite, 255}
LumaArrays == UNION {[1..n -> Lumas] : n \in 1..MaxPixels}

\* (black, white) arguments: ordered, equal, and crossed.
MaskThresholds == {<<DefaultBlack, DefaultWhite>>, <<0, 255>>, <<100, 100>>,
                   <<DefaultWhite, DefaultBlack>>}

\* uint8 BGR pixels: four greys on and off the thresholds, a mid grey and pure
\* blue.  None of the channel values gives a blend that ends in .5.
Pixels == {<<0, 0, 0>>, <<DefaultBlack, DefaultBlack, DefaultBlack>>,
           <<100, 100, 100>>, <<DefaultWhite, DefaultWhite, DefaultWhite>>,
           <<255, 255, 255>>, <<255, 0, 0>>}

\* Frames of up to MaxPixels pixels: a frame maps each position <<y, x>> of
\* its h rows and w columns to a pixel.
Shapes == {hw \in (1..MaxPixels) \X (1..MaxPixels) : hw[1] * hw[2] <= MaxPixels}
Frames == UNION {[(0..(hw[1] - 1)) \X (0..(hw[2] - 1)) -> Pixels] : hw \in Shapes}

\* Frames for the statistics: the pixels above and a saturated yellow.
StatFrames == UNION {[(0..(hw[1] - 1)) \X (0..(hw[2] - 1)) -> Pixels \cup {<<0, 255, 255>>}] :
                        hw \in Shapes}

\* mode arguments: the three modes and a string that is none of them.
Modes == {"Over", "Under", "Both", "Off"}

\* phase arguments.
Phases == {-1, 0, 8, 9999}

SeekArgs == {-1, MaxFrames + 2}
LoopMarks == {0, 1, MaxFrames}
\* Values the black and the white slider are dragged to.
BlackStops == {BlackMax}
WhiteStops == {WhiteMin}
ThresholdPairs == {<<DefaultBlack, DefaultWhite>>, <<40, 200>>, <<60, 180>>}

Max(a, b) == IF a > b THEN a ELSE b
Min(a, b) == IF a < b THEN a ELSE b

\* ProcParams() (scale kept in percent)
ProcParams ==
    [mode |-> "Both", black |-> DefaultBlack, white |-> DefaultWhite,
     scale |-> 50, phase_step |-> DefaultPhaseStep]

\* The fields of the dataclass (app.py:16-22).
ParamFields == {"mode", "black", "white", "scale", "phase_step"}

\* Attributes every ProcParams instance has besides its fields.
ClassAttrs == {"__doc__"}

\* Keyword arguments set_params is called with, as (name, value) pairs in order.
KwArgs == { << <<"mode", "Over">> >>,
            << <<"scale", 100>> >>,
            << <<"black", 40>>, <<"white", 200>> >>,
            << <<"gamma", 2>> >>,
            << <<"black", 60>>, <<"gamma", 2>> >>,
            << <<"__doc__", "text">> >> }

NoEvent == [kind |-> "none"]

NoSeek == [n |-> 0]
NoEof == [seen |-> FALSE]
NoAttempt == [on |-> FALSE, seeked |-> FALSE]
NoOpen == [done |-> FALSE]
NoMove == [who |-> "none"]

\* MainWindow.__init__: no marks (app.py:462-463), loop box unchecked (474),
\* sliders at 16 and 235 (523-524).
\* calls: the set_params calls the running slider handlers have yet to make.
Win0 == [loop_a |-> {}, loop_b |-> {}, loopChk |-> FALSE,
         blackSlider |-> DefaultBlack, whiteSlider |-> DefaultWhite, calls |-> <<>>]

\* No export has been started (MainWindow._exporter is unset).  cap and wr
\* tell whether run() holds an open capture and writer, file whether the
\* destination file exists, written lists the frames in it; log is the history
\* the properties read: the signals emitted and the cancel() calls, in order.
Export0 == [pc |-> "none", in_path |-> None, out_path |-> None, phase_step |-> 0,
            cancel |-> FALSE, cap |-> FALSE, wr |-> FALSE, pos |-> 0, count |-> 0,
            phase |-> 0, i |-> 0, last_pct |-> -1, ok_all |-> TRUE,
            file |-> FALSE, written |-> <<>>, phases |-> <<>>, log |-> <<>>]

\* No step_frames call to remember.
NoStep == [on |-> FALSE]

\* No frame rendered since the last open or seek.
NoPhase == [on |-> FALSE]

\* pause() has not been called since the last play().
NoPause == [on |-> FALSE, reads |-> 0, pairs |-> 0]

\* What the properties need to know of the run so far.
Obs0 ==
    [committed    |-> {<<DefaultBlack, DefaultWhite>>},  \* (black, white) after each completed set_params
     pend         |-> NoSeek,   \* the seek_to calls stored since the last consumption
     taken        |-> NoSeek,   \* the value of pend when run() took the pending seek
     afterSeek    |-> "no",     \* a seek was consumed and no frame rendered since
     lastOpened   |-> None,     \* path of the last opened(...) event
     lastOpenedOk |-> FALSE,    \* its ok flag
     openedEvents |-> 0,        \* opened(...) events for the request being served
     lastRequest  |-> None,     \* path of the last request_open call
     servedLatest |-> TRUE,     \* the request taken was the last one made
     unserved     |-> FALSE,    \* request_open was called and run() has not taken it
     servedFresh  |-> TRUE,     \* the request taken had not been taken before
     replaced     |-> None,     \* the capture the last open released
     pauseAtOpen  |-> TRUE,     \* _pause when opened(True) was emitted
     playSinceOpen|-> FALSE,    \* play() called since opened(True)
     readSinceOpen|-> FALSE,    \* cap.read() delivered a frame since opened(True)
     stopCalled   |-> FALSE,    \* stop() was called
     prevEmit     |-> {},       \* index of the frame of the previous frame pair
     steady       |-> FALSE,    \* no seek, open or loop command since that pair
     eof          |-> NoEof,    \* the end-of-stream just handled
     attempt      |-> NoAttempt,\* the _toggle_loop call in progress or just finished
     jump         |-> {},       \* A of a loop-enable seek, until the next frame pair
     touched      |-> FALSE,    \* a loop handler wrote since run() took the open request
     atOpen       |-> NoOpen,   \* index and loop fields as opened(True) is emitted
     moved        |-> NoMove,   \* the slider whose change is being handled, and its new value
     nudges       |-> 0,        \* keyboard nudges so far
     stepped      |-> NoStep,   \* the last step_frames call, until another command
     sincePause   |-> NoPause,  \* capture reads and frame pairs since pause() returned
     sawPlaying   |-> FALSE,    \* the iteration found a capture and the pause flag clear
     landed       |-> {},       \* the seek value the iteration consumed, until its read
     lastPhase    |-> NoPhase,  \* phase and phase_step of the last frame rendered
     fresh        |-> FALSE]    \* opened(True) was emitted and no frame rendered since

\* run() is not between the read and the write of a loop field (app.py:108-110).
NoKept == [flag |-> FALSE, mark |-> {}]

\* No function of processing.py is being looked at.
NoCall == [fn |-> "none"]

\* VideoWorker.__init__, then QThread.start(): run() has not executed yet.
Built ==
    /\ cap = None /\ cap_pos = 0 /\ handles = 0
    /\ running = FALSE /\ pause = TRUE /\ phase = 0
    /\ params = ProcParams
    /\ mutex = "free"
    /\ seek_to = {} /\ frame_idx = 0 /\ pending_open = None /\ frame_count = 0
    /\ loop_enabled = FALSE /\ loop_a = {} /\ loop_b = {}
    /\ pc = "start" /\ path_req = None /\ st = {} /\ frame = {} /\ p = ProcParams
    /\ cpc = "idle" /\ carg = <<>>
    /\ ev = NoEvent
    /\ obs = Obs0
    /\ win = Win0
    /\ exporter = Export0
    /\ kept = NoKept

Constructed == Built /\ call = NoCall

Init == Constructed /\ watch = DOMAIN Obs0


\* ------------------------------------------------------------------------
\* Helpers
\* ------------------------------------------------------------------------
Val(s) == CHOOSE x \in s : TRUE

\* obs with the watched fields of `facts` updated.
Notes(facts) ==
    [f \in DOMAIN obs |-> IF f \in DOMAIN facts /\ f \in watch THEN facts[f] ELSE obs[f]]

Note(f, v) == IF f \in watch THEN [obs EXCEPT ![f] = v] ELSE obs

\* One more capture read or frame pair since pause() returned (counted to 2).
SincePause(f) ==
    IF obs.sincePause.on
    THEN [obs.sincePause EXCEPT ![f] = IF @ < 2 THEN @ + 1 ELSE @]
    ELSE obs.sincePause

\* A consumed seek that is applied as it was stored.
RunClampNone(i, fc) == i

\* Clamp used by run() when it consumes a seek (app.py:134-137).
RunClamp(i, fc) == IF fc > 0 THEN Max(0, Min(i, fc - 1)) ELSE Max(0, i)

\* Clamp used by seek_to() before it stores the seek (app.py:228-231).
SeekClamp(i, fc) == IF fc # 0 THEN Max(0, Min(i, fc - 1)) ELSE Max(0, i)

\* The loop range in force: <<A, B>> when the loop is enabled with A <= B.
LoopRange ==
    IF loop_enabled /\ loop_a # {} /\ loop_b # {} /\ Val(loop_a) <= Val(loop_b)
    THEN <<Val(loop_a), Val(loop_b)>>
    ELSE <<>>

PosEvent == [kind |-> "pos", src |-> cap, idx |-> frame_idx, count |-> frame_count]

\* ------------------------------------------------------------------------
\* Engine thread: VideoWorker.run
\* ------------------------------------------------------------------------
\* app.py:66
RunStart ==
    /\ pc = "start"
    /\ running' = TRUE
    /\ pc' = "loop"
    /\ UNCHANGED <<engineFields, engineLocals, loopFields, ctlLocals, pause,
                   params, mutex, seek_to, pending_open, obs>>
    /\ ev' = NoEvent
    /\ UNCHANGED others

\* The specification shows the engine's entries into QMutexLocker as steps of
\* their own; elsewhere a locked section of run() is one step taken while the
\* mutex is free.
LockSteps == "locks" \in watch

\* run() is inside one of its locked sections.
EngineHolds == mutex = (IF LockSteps THEN "eng" ELSE "free")

\* A locker that is still held after its block.
ReleasedLate == mutex

\* The mutex when a QMutexLocker of run() goes out of scope (app.py:79, 132, 162).
Released == "free"

\* app.py:77, 129, 161: QMutexLocker(self._mutex) in run(); the engine waits
\* while a command holds the mutex.
RunLock ==
    /\ LockSteps
    /\ pc \in {"loop", "take_seek", "snapshot"}
    /\ pc = "loop" => running
    /\ mutex = "free"
    /\ mutex' = "eng"
    /\ ev' = NoEvent
    /\ UNCHANGED <<engineFields, engineLocals, loopFields, ctlLocals, pc, running, pause,
                   params, seek_to, pending_open, obs>>
    /\ UNCHANGED others

\* run() that reads the pending open without clearing it.
PolledKept == pending_open

\* What run() leaves in the pending-open slot after reading it (app.py:79).
Polled == None

\* app.py:75-81: the while test, then read-and-clear of the pending open.
RunPollOpen ==
    /\ pc = "loop"
    /\ IF ~running /\ mutex # "eng"
       THEN /\ pc' = "cleanup"
            /\ UNCHANGED <<path_req, pending_open, obs, mutex>>
       ELSE /\ EngineHolds
            /\ mutex' = Released
            /\ path_req' = pending_open
            /\ pending_open' = Polled
            /\ pc' = IF pending_open # None THEN "release_old" ELSE "check"
            /\ obs' = IF pending_open # None
                      THEN Notes([eof |-> NoEof, openedEvents |-> 0, touched |-> FALSE,
                                  servedLatest |-> (pending_open = obs.lastRequest),
                                  servedFresh |-> obs.unserved, unserved |-> FALSE])
                      ELSE Note("eof", NoEof)
    /\ UNCHANGED <<engineFields, loopFields, ctlLocals, running, pause, params,
                   seek_to, st, frame, p>>
    /\ ev' = NoEvent
    /\ UNCHANGED others

\* run() that opens the new capture without releasing the old one.
RunKeepOld ==
    /\ pc = "release_old"
    /\ obs' = Note("replaced", cap)
    /\ pc' = "open_cap"
    /\ UNCHANGED <<engineFields, engineLocals, loopFields, ctlLocals, running, pause,
                   params, mutex, seek_to, pending_open>>
    /\ ev' = NoEvent
    /\ UNCHANGED others

\* app.py:83-88
RunReleaseOld ==
    /\ pc = "release_old"
    /\ IF cap # None
       THEN cap' = None /\ handles' = handles - 1
       ELSE UNCHANGED <<cap, handles>>
    /\ obs' = Note("replaced", cap)
    /\ pc' = "open_cap"
    /\ UNCHANGED <<cap_pos, phase, frame_idx, frame_count, engineLocals, loopFields,
                   ctlLocals, running, pause, params, mutex, seek_to, pending_open>>
    /\ ev' = NoEvent
    /\ UNCHANGED others

\* app.py:90-101
RunOpenCap ==
    /\ pc = "open_cap"
    /\ IF Openable(path_req)
       THEN /\ cap' = path_req
            /\ handles' = handles + 1
            /\ cap_pos' = 0
            /\ pc' = "open_phase"
            /\ ev' = NoEvent
            /\ UNCHANGED obs
       ELSE /\ ev' = [kind |-> "opened", ok |-> FALSE, src |-> path_req]
            /\ obs' = Notes([lastOpened |-> path_req, lastOpenedOk |-> FALSE,
                              openedEvents |-> obs.openedEvents + 1])
            /\ pc' = "check"
            /\ UNCHANGED <<cap, handles, cap_pos>>
    /\ UNCHANGED <<phase, frame_idx, frame_count, engineLocals, loopFields, ctlLocals,
                   running, pause, params, mutex, seek_to, pending_open>>
    /\ UNCHANGED others

\* app.py:102
RunOpenPhase ==
    /\ pc = "open_phase"
    /\ phase' = 0
    /\ pc' = "open_idx"
    /\ UNCHANGED <<cap, cap_pos, handles, frame_idx, frame_count, engineLocals,
                   loopFields, ctlLocals, running, pause, params, mutex, seek_to,
                   pending_open, obs>>
    /\ ev' = NoEvent
    /\ UNCHANGED others

\* app.py:103
RunOpenIdx ==
    /\ pc = "open_idx"
    /\ frame_idx' = 0
    /\ pc' = "open_count"
    /\ UNCHANGED <<cap, cap_pos, handles, phase, frame_count, engineLocals,
                   loopFields, ctlLocals, running, pause, params, mutex, seek_to,
                   pending_open, obs>>
    /\ ev' = NoEvent
    /\ UNCHANGED others

\* app.py:104
RunOpenCount ==
    /\ pc = "open_count"
    /\ frame_count' = CountOf(cap)
    /\ pc' = "open_seek"
    /\ UNCHANGED <<cap, cap_pos, handles, phase, frame_idx, engineLocals,
                   loopFields, ctlLocals, running, pause, params, mutex, seek_to,
                   pending_open, obs>>
    /\ ev' = NoEvent
    /\ UNCHANGED others

\* app.py:105: the pending seek is cleared without taking the mutex.
RunOpenClearSeek ==
    /\ pc = "open_seek"
    /\ seek_to' = {}
    /\ obs' = Note("pend", NoSeek)
    /\ pc' = "open_loop"
    /\ UNCHANGED <<engineFields, engineLocals, loopFields, ctlLocals, running, pause,
                   params, mutex, pending_open>>
    /\ ev' = NoEvent
    /\ UNCHANGED others

\* app.py:108-110: each loop field is read and written back.  A command that
\* writes the field between the read and the write is overwritten.  The write
\* of one line and the read of the next are one step: no command touches both
\* fields at once.
RunOpenLoopRead ==
    /\ pc = "open_loop"
    /\ kept' = [flag |-> loop_enabled, mark |-> {}]
    /\ pc' = "open_loop_a"
    /\ UNCHANGED <<engineFields, engineLocals, loopFields, ctlLocals, running, pause,
                   params, mutex, seek_to, pending_open, obs, othersButKept>>
    /\ ev' = NoEvent

RunOpenLoopA ==
    /\ pc = "open_loop_a"
    /\ loop_enabled' = kept.flag
    /\ kept' = [flag |-> FALSE, mark |-> loop_a]
    /\ pc' = "open_loop_b"
    /\ UNCHANGED <<engineFields, engineLocals, loop_a, loop_b, ctlLocals, running,
                   pause, params, mutex, seek_to, pending_open, obs, othersButKept>>
    /\ ev' = NoEvent

RunOpenLoopB ==
    /\ pc = "open_loop_b"
    /\ loop_a' = kept.mark
    /\ kept' = [flag |-> FALSE, mark |-> loop_b]
    /\ pc' = "open_loop_w"
    /\ UNCHANGED <<engineFields, engineLocals, loop_enabled, loop_b, ctlLocals, running,
                   pause, params, mutex, seek_to, pending_open, obs, othersButKept>>
    /\ ev' = NoEvent

RunOpenLoopWrite ==
    /\ pc = "open_loop_w"
    /\ loop_b' = kept.mark
    /\ kept' = NoKept
    /\ pc' = "open_emit"
    /\ UNCHANGED <<engineFields, engineLocals, loop_enabled, loop_a, ctlLocals, running,
                   pause, params, mutex, seek_to, pending_open, obs, othersButKept>>
    /\ ev' = NoEvent

\* app.py:113-118: the new capture is positioned at 0, then opened(True, ...)
\* and posChanged(0, count).
RunOpenEmit ==
    /\ pc = "open_emit"
    /\ cap_pos' = 0
    /\ ev' = [kind |-> "pos", src |-> cap, idx |-> 0, count |-> frame_count]
    /\ obs' = Notes([lastOpened |-> cap, lastOpenedOk |-> TRUE,
                      openedEvents |-> obs.openedEvents + 1, pauseAtOpen |-> pause,
                      playSinceOpen |-> FALSE, readSinceOpen |-> FALSE,
                      prevEmit |-> {}, steady |-> FALSE, afterSeek |-> "no",
                      jump |-> {}, lastPhase |-> NoPhase, fresh |-> TRUE,
                      atOpen |-> [done |-> TRUE, idx |-> frame_idx, on |-> loop_enabled,
                                  a |-> loop_a, b |-> loop_b,
                                  touched |-> obs.touched]])
    /\ pc' = "check"
    /\ UNCHANGED <<cap, handles, phase, frame_idx, frame_count, engineLocals,
                   loopFields, ctlLocals, running, pause, params, mutex, seek_to,
                   pending_open>>
    /\ UNCHANGED others

\* run() that sleeps only while there is no capture.
WaitingNoPause == cap = None

\* The two tests that send run() back to sleep (app.py:121, 124).
Waiting == cap = None \/ pause

\* app.py:121-126: sleep and start over when there is no capture or while paused.
RunCheckReady ==
    /\ pc = "check"
    /\ pc' = IF Waiting THEN "loop" ELSE "take_seek"
    /\ obs' = Notes([atOpen |-> NoOpen, sawPlaying |-> (cap # None /\ ~pause)])
    /\ UNCHANGED <<engineFields, engineLocals, loopFields, ctlLocals, running, pause,
                   params, mutex, seek_to, pending_open>>
    /\ ev' = NoEvent
    /\ UNCHANGED others

\* app.py:129-132: read-and-clear of the pending seek, under the mutex.
RunTakeSeek ==
    /\ pc = "take_seek"
    /\ EngineHolds
    /\ mutex' = Released
    /\ st' = seek_to
    /\ seek_to' = {}
    /\ obs' = Notes([taken |-> obs.pend, pend |-> NoSeek, landed |-> seek_to])
    /\ pc' = IF seek_to # {} THEN "apply_seek" ELSE "read"
    /\ UNCHANGED <<engineFields, path_req, frame, p, loopFields, ctlLocals, running,
                   pause, params, pending_open>>
    /\ ev' = NoEvent
    /\ UNCHANGED others

\* app.py:133-139
RunApplySeek ==
    /\ pc = "apply_seek"
    /\ LET s == RunClamp(Val(st), frame_count)
       IN  /\ cap_pos' = s
           /\ frame_idx' = s
    /\ obs' = Notes([afterSeek |-> IF obs.taken.n > 0 /\ obs.taken.playing
                                    THEN "playing" ELSE "paused",
                      steady |-> FALSE])
    /\ pc' = "seek_emit"
    /\ UNCHANGED <<cap, handles, phase, frame_count, engineLocals, loopFields,
                   ctlLocals, running, pause, params, mutex, seek_to, pending_open>>
    /\ ev' = NoEvent
    /\ UNCHANGED others

\* app.py:140
RunSeekEmit ==
    /\ pc = "seek_emit"
    /\ ev' = PosEvent
    /\ st' = {}
    /\ obs' = Note("taken", NoSeek)
    /\ pc' = "read"
    /\ UNCHANGED <<engineFields, path_req, frame, p, loopFields, ctlLocals, running,
                   pause, params, mutex, seek_to, pending_open>>
    /\ UNCHANGED others

\* A failed read that leaves the logical index where it was.
EofIndexKeep == frame_idx

\* Where run() puts the logical index when cap.read() fails (app.py:146-156).
EofIndex ==
    IF frame_count > 0
    THEN IF loop_enabled /\ loop_a # {} THEN Val(loop_a) ELSE 0
    ELSE 0

\* app.py:143-156: cap.read(); on failure the index is rewound. With a known
\* frame count the capture is repositioned by the next statement (RunEofSet).
RunRead ==
    /\ pc = "read"
    /\ IF cap_pos < ReadableOf(cap)
       THEN /\ phase < MaxPhase
            /\ frame' = {cap_pos}
            /\ cap_pos' = cap_pos + 1
            /\ obs' = Notes([readSinceOpen |-> TRUE, sincePause |-> SincePause("reads"),
                              landed |-> {}])
            /\ pc' = "snapshot"
            /\ UNCHANGED frame_idx
       ELSE /\ frame' = {}
            /\ frame_idx' = EofIndex
            /\ IF frame_count > 0
               THEN /\ pc' = "eof_set"
                    /\ obs' = Notes([eof |-> [seen |-> TRUE, done |-> FALSE, known |-> TRUE,
                                              loopOn |-> loop_enabled, a |-> loop_a],
                                      sincePause |-> SincePause("reads"), landed |-> {}])
                    /\ UNCHANGED cap_pos
               ELSE /\ cap_pos' = 0
                    /\ obs' = Notes([eof |-> [seen |-> TRUE, done |-> TRUE, known |-> FALSE,
                                              loopOn |-> loop_enabled, a |-> loop_a],
                                      sincePause |-> SincePause("reads"), landed |-> {}])
                    /\ pc' = "loop"
    /\ UNCHANGED <<cap, handles, phase, frame_count, path_req, st, p, loopFields,
                   ctlLocals, running, pause, params, mutex, seek_to, pending_open>>
    /\ ev' = NoEvent
    /\ UNCHANGED others

\* app.py:151
RunEofSet ==
    /\ pc = "eof_set"
    /\ cap_pos' = frame_idx
    /\ obs' = Note("eof", [seen |-> TRUE, done |-> TRUE, known |-> TRUE,
                           loopOn |-> obs.eof.loopOn, a |-> obs.eof.a])
    /\ pc' = "loop"
    /\ UNCHANGED <<cap, handles, phase, frame_idx, frame_count, engineLocals,
                   loopFields, ctlLocals, running, pause, params, mutex, seek_to,
                   pending_open>>
    /\ ev' = NoEvent
    /\ UNCHANGED others

\* app.py:160-162: the parameter snapshot, under the mutex.  ProcParams(**d)
\* raises TypeError for a key of d that is not a field, which ends run().
RunSnapshot ==
    /\ pc = "snapshot"
    /\ EngineHolds
    /\ mutex' = Released
    /\ IF DOMAIN params = ParamFields
       THEN p' = params /\ pc' = "stats"
       ELSE p' = p /\ pc' = "raised"
    /\ UNCHANGED <<engineFields, path_req, st, frame, loopFields, ctlLocals, running,
                   pause, params, seek_to, pending_open, obs>>
    /\ ev' = NoEvent
    /\ UNCHANGED others

\* app.py:165-177
RunStats ==
    /\ pc = "stats"
    /\ ev' = [kind |-> "stats", src |-> cap, idx |-> frame_idx, read |-> Val(frame)]
    /\ pc' = "render"
    /\ UNCHANGED <<engineFields, engineLocals, loopFields, ctlLocals, running, pause,
                   params, mutex, seek_to, pending_open, obs>>
    /\ UNCHANGED others

\* A phase that is advanced without the wrap.
PhaseAfterNoWrap(ph, step) == ph + step

\* app.py:182
PhaseAfter(ph, step) == (ph + step) % PhaseMod

\* app.py:179-188: zebra_overlay with the current phase, the phase advance, and
\* the frame pair.
RunRender ==
    /\ pc = "render"
    /\ ev' = [kind |-> "frames", src |-> cap, read |-> Val(frame), phase |-> phase,
              afterSeek |-> obs.afterSeek, prev |-> obs.prevEmit,
              steady |-> obs.steady, loop |-> LoopRange, jump |-> obs.jump,
              last |-> obs.lastPhase, fresh |-> obs.fresh]
    /\ phase' = PhaseAfter(phase, p.phase_step)
    /\ obs' = Notes([afterSeek |-> "no", prevEmit |-> frame, steady |-> TRUE,
                      jump |-> {}, sincePause |-> SincePause("pairs"),
                      lastPhase |-> [on |-> TRUE, ph |-> phase, step |-> p.phase_step],
                      fresh |-> FALSE])
    /\ pc' = "emit_pos"
    /\ UNCHANGED <<cap, cap_pos, handles, frame_idx, frame_count, engineLocals,
                   loopFields, ctlLocals, running, pause, params, mutex, seek_to,
                   pending_open>>
    /\ UNCHANGED others

\* app.py:189-203: posChanged, pacing sleep, FPS meter.
RunEmitPos ==
    /\ pc = "emit_pos"
    /\ ev' = PosEvent
    /\ pc' = "advance"
    /\ UNCHANGED <<engineFields, engineLocals, loopFields, ctlLocals, running, pause,
                   params, mutex, seek_to, pending_open, obs>>
    /\ UNCHANGED others

\* app.py:206
RunAdvance ==
    /\ pc = "advance"
    /\ frame_idx' = frame_idx + 1
    /\ pc' = "wrap"
    /\ UNCHANGED <<cap, cap_pos, handles, phase, frame_count, engineLocals,
                   loopFields, ctlLocals, running, pause, params, mutex, seek_to,
                   pending_open, obs>>
    /\ ev' = NoEvent
    /\ UNCHANGED others

\* app.py:207-210, 212-214: loop range enforcement, else rewind at the end.
RunWrap ==
    /\ pc = "wrap"
    /\ IF frame_count > 0
       THEN IF loop_enabled /\ loop_a # {} /\ loop_b # {}
            THEN IF frame_idx > Val(loop_b)
                 THEN /\ frame_idx' = Val(loop_a)
                      /\ pc' = "wrap_set"
                      /\ UNCHANGED cap_pos
                 ELSE /\ pc' = "loop"
                      /\ UNCHANGED <<frame_idx, cap_pos>>
            ELSE IF frame_idx >= frame_count
                 THEN /\ frame_idx' = 0
                      /\ cap_pos' = 0
                      /\ pc' = "loop"
                 ELSE /\ pc' = "loop"
                      /\ UNCHANGED <<frame_idx, cap_pos>>
       ELSE /\ pc' = "loop"
            /\ UNCHANGED <<frame_idx, cap_pos>>
    /\ UNCHANGED <<cap, handles, phase, frame_count, engineLocals, loopFields,
                   ctlLocals, running, pause, params, mutex, seek_to, pending_open, obs>>
    /\ ev' = NoEvent
    /\ UNCHANGED others

\* app.py:211
RunWrapSet ==
    /\ pc = "wrap_set"
    /\ cap_pos' = frame_idx
    /\ pc' = "loop"
    /\ UNCHANGED <<cap, handles, phase, frame_idx, frame_count, engineLocals,
                   loopFields, ctlLocals, running, pause, params, mutex, seek_to,
                   pending_open, obs>>
    /\ ev' = NoEvent
    /\ UNCHANGED others

\* app.py:216-222
RunCleanup ==
    /\ pc = "cleanup"
    /\ IF cap # None
       THEN cap' = None /\ handles' = handles - 1
       ELSE UNCHANGED <<cap, handles>>
    /\ pc' = "done"
    /\ UNCHANGED <<cap_pos, phase, frame_idx, frame_count, engineLocals, loopFields,
                   ctlLocals, running, pause, params, mutex, seek_to, pending_open, obs>>
    /\ ev' = NoEvent
    /\ UNCHANGED others

EngineCore ==
    \/ RunStart \/ RunPollOpen \/ RunReleaseOld \/ RunOpenCap \/ RunOpenPhase
    \/ RunOpenIdx \/ RunOpenCount \/ RunOpenClearSeek \/ RunOpenLoopRead
    \/ RunOpenLoopA \/ RunOpenLoopB \/ RunOpenLoopWrite \/ RunOpenEmit
    \/ RunCheckReady \/ RunTakeSeek \/ RunRead \/ RunSnapshot \/ RunStats
    \/ RunRender \/ RunEmitPos \/ RunAdvance \/ RunWrap
\* Steps reached only once a seek is pending, the loop range is in force, or
\* stop() was called.
EngineSeek == RunApplySeek \/ RunSeekEmit
EngineLoop == RunEofSet \/ RunWrapSet
EngineStop == RunCleanup
Engine == EngineCore \/ EngineSeek \/ EngineLoop \/ EngineStop

\* ------------------------------------------------------------------------
\* Control thread: the VideoWorker commands
\* ------------------------------------------------------------------------
\* app.py:50-53
request_open(path) ==
    /\ cpc = "idle"
    /\ mutex = "free"
    /\ pending_open' = path
    /\ obs' = Notes([lastRequest |-> path, unserved |-> TRUE, stepped |-> NoStep])
    /\ UNCHANGED <<engineFields, engineLocals, loopFields, ctlLocals, pc, running,
                   pause, params, mutex, seek_to, ev>>
    /\ UNCHANGED others

\* app.py:61
play ==
    /\ cpc = "idle"
    /\ pause' = FALSE
    /\ obs' = Notes([playSinceOpen |-> TRUE, stepped |-> NoStep, sincePause |-> NoPause])
    /\ UNCHANGED <<engineFields, engineLocals, loopFields, ctlLocals, pc, running,
                   params, mutex, seek_to, pending_open, ev>>
    /\ UNCHANGED others

\* app.py:62
pause_cmd ==
    /\ cpc = "idle"
    /\ pause' = TRUE
    /\ obs' = Note("sincePause", [on |-> TRUE, reads |-> 0, pairs |-> 0])
    /\ UNCHANGED <<engineFields, engineLocals, loopFields, ctlLocals, pc, running,
                   params, mutex, seek_to, pending_open, ev>>
    /\ UNCHANGED others

\* app.py:63
stop ==
    /\ cpc = "idle"
    /\ running' = FALSE
    /\ obs' = Note("stopCalled", TRUE)
    /\ UNCHANGED <<engineFields, engineLocals, loopFields, ctlLocals, pc, pause,
                   params, mutex, seek_to, pending_open, ev>>
    /\ UNCHANGED others

\* set_params that writes its fields without taking the mutex.
SetParamsNoLock == "free"

\* What set_params does to the mutex on entry (app.py:56).
SetParamsLock == "ctl"

\* app.py:55-59, set_params(black=b, white=w): the lock and the first field.
\* The caller is at `at` and goes on at `back` when set_params returns.
SetParamsCall(b, w, at, back) ==
    /\ cpc = at
    /\ mutex = "free"
    /\ mutex' = SetParamsLock
    /\ params' = [params EXCEPT !.black = b]
    /\ cpc' = "sp_white"
    /\ carg' = <<b, w, back>>
    /\ UNCHANGED <<engineFields, engineLocals, loopFields, pc, running, pause,
                   seek_to, pending_open, ev, obs>>
    /\ UNCHANGED others

\* set_params(black=b, white=w) called by a command of its own.
set_params_black(b, w) == SetParamsCall(b, w, "idle", "idle")

\* app.py:57-59: the second field, then the locker is released.
set_params_white ==
    /\ cpc = "sp_white"
    /\ params' = [params EXCEPT !.white = carg[2]]
    /\ mutex' = "free"
    /\ obs' = Note("committed", obs.committed \cup {<<carg[1], carg[2]>>})
    /\ cpc' = carg[3]
    /\ carg' = <<>>
    /\ UNCHANGED <<engineFields, engineLocals, loopFields, pc, running, pause,
                   seek_to, pending_open, ev>>
    /\ UNCHANGED others

\* hasattr(obj, name) for a ProcParams instance: instance attributes and what
\* the class provides.
HasAttr(obj, name) == name \in DOMAIN obj \/ name \in ClassAttrs

\* setattr(obj, name, value): the instance attribute is written, or created.
SetAttr(obj, name, value) ==
    [k \in DOMAIN obj \cup {name} |-> IF k = name THEN value ELSE obj[k]]

\* app.py:55-56, set_params(**kwargs): the lock.
set_params_lock(kwargs) ==
    /\ cpc = "idle"
    /\ mutex = "free"
    /\ mutex' = "ctl"
    /\ cpc' = "sp_item"
    /\ carg' = kwargs
    /\ UNCHANGED <<engineFields, engineLocals, loopFields, pc, running, pause,
                   params, seek_to, pending_open, ev, obs>>
    /\ UNCHANGED others

\* app.py:57-59: one turn of the loop over kwargs.items().
set_params_item ==
    /\ cpc = "sp_item"
    /\ carg # <<>>
    /\ params' = IF HasAttr(params, Head(carg)[1])
                 THEN SetAttr(params, Head(carg)[1], Head(carg)[2])
                 ELSE params
    /\ carg' = Tail(carg)
    /\ UNCHANGED <<engineFields, engineLocals, loopFields, cpc, pc, running, pause,
                   mutex, seek_to, pending_open, ev, obs>>
    /\ UNCHANGED others

\* The loop is over; the locker is released.
set_params_unlock ==
    /\ cpc = "sp_item"
    /\ carg = <<>>
    /\ mutex' = "free"
    /\ cpc' = "idle"
    /\ UNCHANGED <<engineFields, engineLocals, loopFields, carg, pc, running, pause,
                   params, seek_to, pending_open, ev, obs>>
    /\ UNCHANGED others

\* seek_to that keeps an unconsumed older seek instead of replacing it.
SeekStoreFirst(pending, new) == IF pending # {} THEN pending ELSE {new}

\* What seek_to leaves in the slot, given what was pending (app.py:233).
SeekStore(pending, new) == {new}

\* app.py:225-231: the lock and the clamp against the current frame count.
\* The caller is at `at` and goes on at `back` when seek_to returns.
SeekToCall(i, at, back) ==
    /\ cpc = at
    /\ mutex = "free"
    /\ mutex' = "ctl"
    /\ cpc' = "seek_slot"
    /\ carg' = <<i, SeekClamp(i, frame_count), ~pause, back>>
    /\ UNCHANGED <<engineFields, engineLocals, loopFields, pc, running, pause, params,
                   seek_to, pending_open, ev, obs>>
    /\ UNCHANGED others

\* seek_to called by a command of its own (scrub, timeline click).
seek_to_clamp(i) == SeekToCall(i, "idle", "idle")

\* app.py:233
seek_to_slot ==
    /\ cpc = "seek_slot"
    /\ seek_to' = SeekStore(seek_to, carg[2])
    /\ obs' = Notes([pend |-> [n |-> IF obs.pend.n = 0 THEN 1 ELSE 2,
                               first |-> IF obs.pend.n = 0 THEN carg[2] ELSE obs.pend.first,
                               stored |-> carg[2], raw |-> carg[1], playing |-> carg[3]],
                      steady |-> FALSE, lastPhase |-> NoPhase])
    /\ cpc' = "seek_idx"
    /\ UNCHANGED <<engineFields, engineLocals, loopFields, carg, pc, running, pause,
                   params, mutex, pending_open, ev>>
    /\ UNCHANGED others

\* app.py:234
seek_to_idx ==
    /\ cpc = "seek_idx"
    /\ frame_idx' = carg[2]
    /\ cpc' = "seek_phase"
    /\ obs' = Note("touched", TRUE)
    /\ UNCHANGED <<cap, cap_pos, handles, phase, frame_count, engineLocals, loopFields,
                   carg, pc, running, pause, params, mutex, seek_to, pending_open,
                   ev>>
    /\ UNCHANGED others

\* app.py:235, then the locker is released.
seek_to_phase ==
    /\ cpc = "seek_phase"
    /\ phase' = 0
    /\ mutex' = "free"
    /\ cpc' = carg[4]
    /\ carg' = <<>>
    /\ obs' = Note("lastPhase", NoPhase)
    /\ UNCHANGED <<cap, cap_pos, handles, frame_idx, frame_count, engineLocals,
                   loopFields, pc, running, pause, params, seek_to, pending_open,
                   ev>>
    /\ UNCHANGED others

\* app.py:249: step_frames pauses first.  Steps that would take the index of
\* a source of unknown length past MaxFrames + 2 are left out.
step_pause(delta) ==
    /\ cpc = "idle"
    /\ frame_idx + delta <= MaxFrames + 2
    /\ pause' = TRUE
    /\ cpc' = "step_read"
    /\ carg' = <<delta>>
    /\ obs' = Note("stepped", NoStep)
    /\ UNCHANGED <<engineFields, engineLocals, loopFields, pc, running, params, mutex,
                   seek_to, pending_open, ev>>
    /\ UNCHANGED others

\* app.py:250: current_frame() + delta, the argument of seek_to.  The step is
\* remembered with the position it read, and with whether a source was open
\* and the engine was not serving or about to serve an open request.
step_read ==
    /\ cpc = "step_read"
    /\ carg' = <<carg[1], frame_idx + carg[1]>>
    /\ cpc' = "step_seek"
    /\ obs' = Note("stepped", [on |-> TRUE, pos |-> frame_idx, delta |-> carg[1],
                               settled |-> cap # None /\ path_req = None
                                           /\ pending_open = None])
    /\ UNCHANGED <<engineFields, engineLocals, loopFields, pc, running, pause, params,
                   mutex, seek_to, pending_open, ev>>
    /\ UNCHANGED others

\* app.py:250: the call of seek_to.
step_seek == SeekToCall(carg[2], "step_seek", "idle")

step_frames(delta) == step_pause(delta) \/ step_read \/ step_seek

\* app.py:253-254
set_loop_a(i) ==
    /\ cpc = "idle"
    /\ loop_a' = {i}
    /\ obs' = Note("steady", FALSE)
    /\ UNCHANGED <<engineFields, engineLocals, ctlLocals, loop_enabled, loop_b, pc,
                   running, pause, params, mutex, seek_to, pending_open, ev>>
    /\ UNCHANGED others

\* app.py:256-257
set_loop_b(i) ==
    /\ cpc = "idle"
    /\ loop_b' = {i}
    /\ obs' = Note("steady", FALSE)
    /\ UNCHANGED <<engineFields, engineLocals, ctlLocals, loop_enabled, loop_a, pc,
                   running, pause, params, mutex, seek_to, pending_open, ev>>
    /\ UNCHANGED others

\* app.py:259-260
enable_loop(enabled) ==
    /\ cpc = "idle"
    /\ loop_enabled' = enabled
    /\ obs' = Note("steady", FALSE)
    /\ UNCHANGED <<engineFields, engineLocals, ctlLocals, loop_a, loop_b, pc,
                   running, pause, params, mutex, seek_to, pending_open, ev>>
    /\ UNCHANGED others

\* ------------------------------------------------------------------------
\* Control thread: MainWindow loop handlers (app.py:841-866)
\* ------------------------------------------------------------------------
\* What the loop handlers leave alone in the worker.
workerRest == <<engineFields, engineLocals, pc, running, pause, params, mutex,
                seek_to, pending_open, ev>>

\* app.py:841-845: fi = self.worker.current_frame(); self._loop_a = fi;
\* self.worker.set_loop_a(fi).  The mark is the position at the moment it is
\* written.
mark_a ==
    /\ cpc = "idle"
    /\ win' = [win EXCEPT !.loop_a = {frame_idx}]
    /\ loop_a' = {frame_idx}
    /\ obs' = Notes([steady |-> FALSE, touched |-> TRUE])
    /\ UNCHANGED <<workerRest, ctlLocals, loop_enabled, loop_b, othersButWin>>

\* app.py:847-851, the same for B.
mark_b ==
    /\ cpc = "idle"
    /\ win' = [win EXCEPT !.loop_b = {frame_idx}]
    /\ loop_b' = {frame_idx}
    /\ obs' = Notes([steady |-> FALSE, touched |-> TRUE])
    /\ UNCHANGED <<workerRest, ctlLocals, loop_enabled, loop_a, othersButWin>>

\* Both marks set and in order (what the message box at app.py:856 asks for).
ValidBounds(a, b) == a # {} /\ b # {} /\ Val(a) <= Val(b)

\* The test of app.py:855 on the window's marks.
Rejected(a, b) == a = {} \/ b = {} \/ Val(a) > Val(b)

\* app.py:853-855 and 862: the loop box was toggled to `on`; an enable with
\* unusable marks goes to the rejection, anything else is passed to the worker.
toggle_check(on) ==
    /\ cpc = "idle"
    /\ on # win.loopChk
    /\ win' = [win EXCEPT !.loopChk = on]
    /\ IF on /\ Rejected(win.loop_a, win.loop_b)
       THEN /\ cpc' = "toggle_reject"
            /\ UNCHANGED loop_enabled
       ELSE /\ loop_enabled' = on
            /\ cpc' = IF on THEN "toggle_test" ELSE "toggle_done"
    /\ obs' = Notes([steady |-> FALSE, touched |-> TRUE,
                      attempt |-> [on |-> on,
                                   valid |-> ValidBounds(win.loop_a, win.loop_b),
                                   a |-> win.loop_a, b |-> win.loop_b,
                                   seek |-> seek_to, seeked |-> FALSE]])
    /\ UNCHANGED <<workerRest, loop_a, loop_b, carg, othersButWin>>

\* app.py:856-861: message box, the box is unchecked with its signal blocked,
\* enable_loop(False).
toggle_reject ==
    /\ cpc = "toggle_reject"
    /\ win' = [win EXCEPT !.loopChk = FALSE]
    /\ loop_enabled' = FALSE
    /\ obs' = Notes([steady |-> FALSE, touched |-> TRUE])
    /\ cpc' = "toggle_done"
    /\ UNCHANGED <<workerRest, loop_a, loop_b, carg, othersButWin>>

\* app.py:864: if on and self.worker.current_frame() > self._loop_b
toggle_test ==
    /\ cpc = "toggle_test"
    /\ IF frame_idx > Val(win.loop_b)
       THEN /\ cpc' = "toggle_seek"
            /\ obs' = Note("attempt", [obs.attempt EXCEPT !.seeked = TRUE])
       ELSE /\ cpc' = "toggle_done"
            /\ UNCHANGED obs
    /\ UNCHANGED <<workerRest, loopFields, carg>>
    /\ UNCHANGED others

\* app.py:865: self.worker.seek_to(self._loop_a)
toggle_seek == SeekToCall(Val(win.loop_a), "toggle_seek", "toggle_done")

\* app.py:861 and 866: _toggle_loop returns.
toggle_done ==
    /\ cpc = "toggle_done"
    /\ cpc' = "idle"
    /\ obs' = Notes([attempt |-> NoAttempt,
                      jump |-> IF obs.attempt.seeked THEN obs.attempt.a ELSE obs.jump])
    /\ UNCHANGED <<workerRest, loopFields, carg>>
    /\ UNCHANGED others

\* ------------------------------------------------------------------------
\* Control thread: MainWindow threshold handlers (app.py:674-688, 727-741)
\* ------------------------------------------------------------------------
\* QSlider.setValue keeps the value inside the slider's range.
SliderValue(v, lo, hi) == Max(lo, Min(hi, v))

\* _push_thresholds that pushes the slider values as they are.
PushThresholdsRaw(bs, ws, sender) ==
    [black |-> bs, white |-> ws, calls |-> << <<bs, ws>> >>]

\* app.py:674-687, _push_thresholds run with the sliders at bs and ws and
\* sender() = sender: the sliders when it returns and the set_params calls made,
\* in order.  A setValue that changes the other slider emits its valueChanged
\* (app.py:597-598), which runs _push_thresholds again before setValue returns.
RECURSIVE PushThresholds(_, _, _)
PushThresholds(bs, ws, sender) ==
    IF bs >= ws
    THEN IF sender = "blackSlider"
         THEN LET w == Min(255, bs + 1)
                  set == SliderValue(w, WhiteMin, WhiteMax)
                  nested == IF set # ws
                            THEN PushThresholds(bs, set, "whiteSlider")
                            ELSE [black |-> bs, white |-> ws, calls |-> <<>>]
              IN  [black |-> nested.black, white |-> nested.white,
                   calls |-> Append(nested.calls, <<bs, w>>)]
         ELSE LET b == Max(0, ws - 1)
                  set == SliderValue(b, BlackMin, BlackMax)
                  nested == IF set # bs
                            THEN PushThresholds(set, ws, "blackSlider")
                            ELSE [black |-> bs, white |-> ws, calls |-> <<>>]
              IN  [black |-> nested.black, white |-> nested.white,
                   calls |-> Append(nested.calls, <<b, ws>>)]
    ELSE [black |-> bs, white |-> ws, calls |-> << <<bs, ws>> >>]

\* slider.setValue(v) with the sliders at bs and ws: nothing if the value stays,
\* else valueChanged runs _push_thresholds with that slider as sender.
SetSlider(bs, ws, slider, v) ==
    LET to == IF slider = "blackSlider" THEN SliderValue(v, BlackMin, BlackMax)
                                        ELSE SliderValue(v, WhiteMin, WhiteMax)
    IN  IF slider = "blackSlider"
        THEN IF to = bs THEN [black |-> bs, white |-> ws, calls |-> <<>>]
                        ELSE PushThresholds(to, ws, slider)
        ELSE IF to = ws THEN [black |-> bs, white |-> ws, calls |-> <<>>]
                        ELSE PushThresholds(bs, to, slider)

\* The GUI thread enters the handlers: the sliders move at once, the
\* set_params calls follow one by one.
Handle(r, slider, to, n) ==
    /\ cpc = "idle"
    /\ win' = [win EXCEPT !.blackSlider = r.black, !.whiteSlider = r.white,
                          !.calls = r.calls]
    /\ cpc' = "push"
    /\ obs' = Notes([moved |-> [who |-> slider, to |-> to], nudges |-> obs.nudges + n])
    /\ UNCHANGED <<workerRest, loopFields, carg, othersButWin>>

\* The user drags a slider to v.
slider_moved(slider, v) ==
    /\ v # win[slider]
    /\ Handle(SetSlider(win.blackSlider, win.whiteSlider, slider, v), slider, v, 0)

\* app.py:727-741: [ ] - = move a slider by one inside its range, then call
\* _push_thresholds directly (sender() is None).
nudge(slider, d) ==
    /\ obs.nudges < MaxNudges
    /\ LET lo == IF slider = "blackSlider" THEN BlackMin ELSE WhiteMin
           hi == IF slider = "blackSlider" THEN BlackMax ELSE WhiteMax
           v  == Max(lo, Min(hi, win[slider] + d))
           r1 == SetSlider(win.blackSlider, win.whiteSlider, slider, v)
           r2 == PushThresholds(r1.black, r1.white, "None")
       IN  Handle([black |-> r2.black, white |-> r2.white,
                   calls |-> r1.calls \o r2.calls], slider, v, 1)

\* app.py:687: the next set_params call of the handlers.
push_call ==
    /\ win.calls # <<>>
    /\ SetParamsCall(Head(win.calls)[1], Head(win.calls)[2], "push", "push_ret")

\* set_params has returned (app.py:688).
push_ret ==
    /\ cpc = "push_ret"
    /\ win' = [win EXCEPT !.calls = Tail(win.calls)]
    /\ cpc' = "push"
    /\ UNCHANGED <<workerRest, loopFields, carg, obs, othersButWin>>

\* The handlers have returned to the event loop.
push_done ==
    /\ cpc = "push"
    /\ win.calls = <<>>
    /\ cpc' = "idle"
    /\ obs' = Note("moved", NoMove)
    /\ UNCHANGED <<workerRest, loopFields, carg>>
    /\ UNCHANGED others

\* ------------------------------------------------------------------------
\* Export thread: ExportWorker (app.py:362-432) and its window handlers
\* ------------------------------------------------------------------------
\* What the export and its handlers leave alone.
exportRest == <<workerRest, loopFields, ctlLocals, obs, watch, win, kept, call>>

Progress(pct, last) == [kind |-> "progress", pct |-> pct, closing |-> last]
Finished(ok, msg) == [kind |-> "finished", ok |-> ok, msg |-> msg]

\* app.py:775-815, 366-374: the window creates the ExportWorker and starts it.
on_export(in_path, out_path) ==
    /\ exporter.pc = "none"
    /\ exporter' = [Export0 EXCEPT !.pc = "open", !.in_path = in_path,
                                   !.out_path = out_path,
                                   !.phase_step = DefaultPhaseStep]
    /\ UNCHANGED exportRest

\* app.py:837-839, 376-377
cancel ==
    /\ exporter.pc \notin {"none", "done"}
    /\ ~exporter.cancel
    /\ exporter' = [exporter EXCEPT
                       !.cancel = TRUE,
                       !.log = Append(@, [kind |-> "cancel", at |-> exporter.pc,
                                          frames |-> Len(exporter.written)])]
    /\ UNCHANGED exportRest

\* An export that leaves the capture open when the writer cannot be opened.
ExportKeepCap(opened) == opened

\* cap.release() before the writer failure is reported (app.py:393).
ExportReleaseCap(opened) == FALSE

\* app.py:380-400: both opens and the loop's locals.
ExportOpen ==
    /\ exporter.pc = "open"
    /\ exporter' =
         IF ~Openable(exporter.in_path)
         THEN [exporter EXCEPT !.pc = "done",
                 !.log = Append(@, Finished(FALSE, "Cannot open input video."))]
         ELSE IF ~Writable(exporter.out_path)
         THEN [exporter EXCEPT !.pc = "done", !.cap = ExportReleaseCap(TRUE),
                 !.count = CountOf(exporter.in_path),
                 !.log = Append(@, Finished(FALSE, "Cannot open output for writing."))]
         ELSE [exporter EXCEPT !.pc = "test", !.cap = TRUE, !.wr = TRUE,
                 !.file = TRUE, !.count = CountOf(exporter.in_path),
                 !.phase = 0, !.i = 0, !.last_pct = -1, !.ok_all = TRUE]
    /\ UNCHANGED exportRest

\* app.py:403-405
ExportTest ==
    /\ exporter.pc = "test"
    /\ exporter' = IF exporter.cancel
                   THEN [exporter EXCEPT !.ok_all = FALSE, !.pc = "release"]
                   ELSE [exporter EXCEPT !.pc = "frame"]
    /\ UNCHANGED exportRest

\* int((i * 100) / count)
Pct(i, count) == (i * 100) \div count

\* app.py:407-421: read, overlay, write, progress.
ExportFrame ==
    /\ exporter.pc = "frame"
    /\ exporter' =
         IF exporter.pos >= ReadableOf(exporter.in_path)
         THEN [exporter EXCEPT !.pc = "release"]
         ELSE LET i == exporter.i + 1
                  emit == exporter.count > 0
                          /\ Pct(i, exporter.count) # exporter.last_pct
              IN  [exporter EXCEPT
                     !.pc = "test",
                     !.pos = @ + 1,
                     !.written = Append(@, exporter.pos),
                     !.phases = Append(@, exporter.phase),
                     !.phase = (@ + exporter.phase_step) % ExportPhaseMod,
                     !.i = i,
                     !.last_pct = IF emit THEN Pct(i, exporter.count) ELSE @,
                     !.log = IF emit
                             THEN Append(@, Progress(Pct(i, exporter.count), FALSE))
                             ELSE @]
    /\ UNCHANGED exportRest

\* app.py:423-424
ExportRelease ==
    /\ exporter.pc = "release"
    /\ exporter' = [exporter EXCEPT !.wr = FALSE, !.cap = FALSE, !.pc = "final"]
    /\ UNCHANGED exportRest

\* An export that never looks at the cancel flag once its loop is over.
ExportFinalBlind ==
    /\ exporter.pc = "final"
    /\ exporter' = [exporter EXCEPT !.pc = "complete"]
    /\ UNCHANGED exportRest

\* app.py:426: the last look at the cancel flag.
ExportFinal ==
    /\ exporter.pc = "final"
    /\ exporter' = [exporter EXCEPT
                       !.pc = IF exporter.cancel THEN "canceled" ELSE "complete"]
    /\ UNCHANGED exportRest

\* app.py:427-429
ExportCanceled ==
    /\ exporter.pc = "canceled"
    /\ exporter' = [exporter EXCEPT !.pc = "done", !.file = FALSE, !.written = <<>>,
                       !.log = Append(@, Finished(FALSE, "Export canceled."))]
    /\ UNCHANGED exportRest

\* app.py:431-432
ExportComplete ==
    /\ exporter.pc = "complete"
    /\ exporter' = [exporter EXCEPT !.pc = "done",
                       !.log = Append(Append(@, Progress(100, TRUE)),
                                      Finished(exporter.ok_all, "Export complete"))]
    /\ UNCHANGED exportRest

\* app.py:817-835: the window drops the finished exporter.
on_export_finished ==
    /\ exporter.pc = "done"
    /\ exporter' = Export0
    /\ UNCHANGED exportRest

ExportRun == \/ ExportOpen \/ ExportTest \/ ExportFrame \/ ExportRelease
             \/ ExportFinal \/ ExportCanceled \/ ExportComplete

\* ------------------------------------------------------------------------
\* processing.py
\* ------------------------------------------------------------------------
\* Masks that test each pixel against the other threshold.
MasksSwapped(Y, black, white) ==
    [under |-> [k \in DOMAIN Y |-> Y[k] <= white],
     over  |-> [k \in DOMAIN Y |-> Y[k] >= black]]

\* processing.py:14-18
compute_masks_from_luma(Y, black, white) ==
    [under |-> [k \in DOMAIN Y |-> Y[k] <= black],
     over  |-> [k \in DOMAIN Y |-> Y[k] >= white]]

\* BT.709 luma of a BGR pixel, in ten-thousandths (processing.py:49-52).
\* float32 keeps every strict comparison of this value with an integer
\* threshold: luma values are 0.0002 apart at least.
Luma(px) == 2126 * px[3] + 7152 * px[2] + 722 * px[1]

\* np.clip(v, lo, hi)
Clip(v, lo, hi) == Max(lo, Min(hi, v))

\* processing.py:43-46: the thresholds zebra_overlay works with.
ZebraBlack(black) == Clip(black, 0, 254)
ZebraWhite(black, white) ==
    IF ZebraBlack(black) >= Clip(white, 1, 255)
    THEN Min(255, ZebraBlack(black) + 1)
    ELSE Clip(white, 1, 255)

\* An over mask that selects every pixel.
IsOverAll(px, mode, white) == TRUE

\* processing.py:55: the over mask, None unless the mode asks for it.
IsOver(px, mode, white) == mode \in {"Over", "Both"} /\ Luma(px) >= 10000 * white

\* An under mask that selects every pixel up to the white threshold.
IsUnderWide(px, mode, black) ==
    mode \in {"Under", "Both"} /\ Luma(px) < 10000 * (black + 220)

\* processing.py:56
IsUnder(px, mode, black) == mode \in {"Under", "Both"} /\ Luma(px) <= 10000 * black

\* A stripe pattern that does not repeat.
PatternOnce(pos, ph) == pos[2] + pos[1] + ph < Duty

\* processing.py:62-63: pos = <<y, x>> is on a stripe.
Pattern(pos, ph) == ((pos[2] + pos[1] + ph) % Period) < Duty

\* processing.py:66-70: cv2.addWeighted of the pixel with the stripe image
\* (255 on a stripe, 0 off it), rounded to uint8.
Blend(px, on) ==
    [c \in 1..3 |-> (px[c] * (100 - AlphaPct) + (IF on THEN 255 ELSE 0) * AlphaPct + 50)
                        \div 100]

\* processing.py:32-72 on a uint8 BGR frame (safe_frame_bgr returns it as it is).
zebra_overlay(frame_bgr, mode, black, white, ph) ==
    LET b == ZebraBlack(black)
        w == ZebraWhite(black, white)
    IN  IF mode \notin {"Over", "Under", "Both"}
        THEN frame_bgr
        ELSE [pos \in DOMAIN frame_bgr |->
                IF IsOver(frame_bgr[pos], mode, w) \/ IsUnder(frame_bgr[pos], mode, b)
                THEN Blend(frame_bgr[pos], Pattern(pos, ph))
                ELSE frame_bgr[pos]]

\* cv2.cvtColor(frame, cv2.COLOR_BGR2GRAY) on a uint8 pixel (app.py:172):
\* OpenCV's fixed-point BT.601 weights, rounded to uint8.
Gray(px) == (4899 * px[3] + 9617 * px[2] + 1868 * px[1] + 8192) \div 16384

\* app.py:172-177: the over and under counts behind the fractions of
\* statsReady, next to the counts of the pixels zebra_overlay masks in the same
\* frame with the same snapshot (mode Both).
ApplyStats ==
    /\ call.fn = "args"
    /\ LET f == call.frame
           zw == ZebraWhite(call.black, call.white)
           zb == ZebraBlack(call.black)
       IN  call' = [call EXCEPT
                      !.fn = "stats",
                      !.over = Cardinality({pos \in DOMAIN f : Gray(f[pos]) >= call.white}),
                      !.under = Cardinality({pos \in DOMAIN f : Gray(f[pos]) <= call.black}),
                      !.zover = Cardinality({pos \in DOMAIN f : IsOver(f[pos], "Both", zw)}),
                      !.zunder = Cardinality({pos \in DOMAIN f : IsUnder(f[pos], "Both", zb)})]
    /\ UNCHANGED <<workerRest, loopFields, ctlLocals, obs, watch, win, exporter, kept>>

\* The function is applied to the arguments drawn, and to the same arguments
\* one period later.
ApplyZebra ==
    /\ call.fn = "args"
    /\ call' = [call EXCEPT
                   !.fn = "zebra_overlay",
                   !.ret = zebra_overlay(call.frame, call.mode, call.black,
                                         call.white, call.phase),
                   !.later = zebra_overlay(call.frame, call.mode, call.black,
                                           call.white, call.phase + Period)]
    /\ UNCHANGED <<workerRest, loopFields, ctlLocals, obs, watch, win, exporter, kept>>

\* ------------------------------------------------------------------------
\* analyze_cli.py: main() on a video of call.readable frames, cut at its reads.
\* call.pos is the capture's read position, call.out the CSV file (None while
\* it is not written).

\* A cap that also stops at --max-frames 0.
CapReachedAlways(max_frames, processed) == processed >= max_frames

\* analyze_cli.py:54
CapReached(max_frames, processed) == max_frames > 0 /\ processed >= max_frames

\* analyze_cli.py:18-26: the file is missing or does not open.
AnalyzeExit ==
    /\ call.fn = "main" /\ call.pc = "open" /\ ~call.openable
    /\ call' = [call EXCEPT !.pc = "exit"]
    /\ UNCHANGED <<workerRest, loopFields, ctlLocals, obs, watch, win, exporter, kept>>

\* analyze_cli.py:23-39
AnalyzeOpen ==
    /\ call.fn = "main" /\ call.pc = "open" /\ call.openable
    /\ call' = [call EXCEPT !.pc = "read", !.rows = <<>>, !.i = 0, !.processed = 0]
    /\ UNCHANGED <<workerRest, loopFields, ctlLocals, obs, watch, win, exporter, kept>>

\* analyze_cli.py:41-55: one pass of the loop, the frame at the read position
\* becoming the row of index i.
AnalyzeFrame ==
    /\ call.fn = "main" /\ call.pc = "read"
    /\ IF call.pos >= call.readable
       THEN call' = [call EXCEPT !.pc = "ranked"]
       ELSE call' = [call EXCEPT
                       !.pos = @ + 1,
                       !.rows = Append(@, [idx |-> call.i, frame |-> call.pos]),
                       !.processed = @ + 1,
                       !.i = @ + 1,
                       !.pc = IF CapReached(call.max_frames, call.processed + 1)
                              THEN "ranked" ELSE "read"]
    /\ UNCHANGED <<workerRest, loopFields, ctlLocals, obs, watch, win, exporter, kept>>

\* analyze_cli.py:57-96: the ranking reads rows only; the CSV gets one line per
\* row, in the order of rows, after the header.
AnalyzeCsv ==
    /\ call.fn = "main" /\ call.pc = "ranked"
    /\ call' = [call EXCEPT
                   !.pc = "end",
                   !.out = IF call.csv
                           THEN <<"frame_idx">> \o [k \in 1..Len(call.rows) |-> call.rows[k].idx]
                           ELSE @]
    /\ UNCHANGED <<workerRest, loopFields, ctlLocals, obs, watch, win, exporter, kept>>

AnalyzeRun == AnalyzeExit \/ AnalyzeOpen \/ AnalyzeFrame \/ AnalyzeCsv

\* The function is applied to the arguments drawn.
ApplyMasks ==
    /\ call.fn = "args"
    /\ call' = [call EXCEPT !.fn = "compute_masks_from_luma",
                            !.ret = compute_masks_from_luma(call.Y, call.black,
                                                            call.white)]
    /\ UNCHANGED <<workerRest, loopFields, ctlLocals, obs, watch, win, exporter, kept>>

\* ------------------------------------------------------------------------
\* Specifications: the engine with all commands, and with the commands of
\* one concern at a time.
\* ------------------------------------------------------------------------
CmdOpen(paths) == \E path \in paths : request_open(path)
CmdParams == (\E bw \in ThresholdPairs : set_params_black(bw[1], bw[2])) \/ set_params_white
CmdSeek   == (\E i \in SeekArgs : seek_to_clamp(i)) \/ seek_to_slot \/ seek_to_idx \/ seek_to_phase
CmdLoop   == \/ \E i \in LoopMarks : set_loop_a(i)
             \/ \E i \in LoopMarks : set_loop_b(i)
             \/ \E b \in BOOLEAN : enable_loop(b)

Next == \/ Engine \/ CmdOpen(Paths) \/ play \/ pause_cmd \/ stop
        \/ CmdParams \/ CmdSeek \/ CmdLoop
Spec == Init /\ [][Next]_vars

\* Each specification below runs the engine against the commands of one
\* concern and records the history facts its properties read.  Without the
\* commands that lead to them, the steps of EngineSeek, EngineLoop and
\* EngineStop are unreachable and are left out of the next-state relation.
Readable == {path \in Paths : Openable(path)}

ParamsFacts == {"committed"}
InitParams == Constructed /\ watch = ParamsFacts
NextParams == EngineCore \/ CmdOpen({"clipK"}) \/ play \/ pause_cmd \/ CmdParams
SpecParams == InitParams /\ [][NextParams]_vars

SeekFacts == {"pend", "taken", "afterSeek"}
InitSeek == Constructed /\ watch = SeekFacts
NextSeek == EngineCore \/ EngineSeek \/ CmdOpen(Readable) \/ play \/ pause_cmd \/ CmdSeek
SpecSeek == InitSeek /\ [][NextSeek]_vars

OpenFacts == {"lastOpened", "lastOpenedOk", "openedEvents", "lastRequest",
              "servedLatest", "unserved", "servedFresh", "replaced", "pauseAtOpen", "playSinceOpen",
              "readSinceOpen"}
InitOpen == Constructed /\ watch = OpenFacts
NextOpen == EngineCore \/ CmdOpen(Paths) \/ play \/ pause_cmd
SpecOpen == InitOpen /\ [][NextOpen]_vars

StopFacts == {"stopCalled"}
InitStop == Constructed /\ watch = StopFacts
NextStop == EngineCore \/ EngineStop \/ CmdOpen(Paths) \/ play \/ pause_cmd \/ stop
SpecStop == InitStop /\ [][NextStop]_vars

\* The engine thread is scheduled: whenever run() can take its next step it
\* eventually does.  Nothing is assumed about when commands arrive.
FairStop == SpecStop /\ WF_vars(EngineCore \/ EngineStop)

LoopFacts == {"prevEmit", "steady", "eof"}
InitLoop == Constructed /\ watch = LoopFacts
NextLoop == EngineCore \/ EngineLoop \/ CmdOpen(Readable) \/ play \/ pause_cmd \/ CmdLoop
SpecLoop == InitLoop /\ [][NextLoop]_vars

\* The engine thread is scheduled while the loop commands arrive at any time.
FairLoop == SpecLoop /\ WF_vars(EngineCore \/ EngineLoop)

\* The loop as the window drives it: marks taken from the current position,
\* the loop box, and the seek the box issues.
CmdMarks == \/ mark_a \/ mark_b
            \/ (\E on \in BOOLEAN : toggle_check(on))
            \/ toggle_reject \/ toggle_test \/ toggle_seek
            \/ seek_to_slot \/ seek_to_idx \/ seek_to_phase \/ toggle_done
MarksFacts == {"attempt", "jump", "touched", "atOpen"}
InitMarks == Constructed /\ watch = MarksFacts
NextMarks == EngineCore \/ EngineSeek \/ EngineLoop \/ CmdOpen({"clipK"}) \/ play
             \/ CmdMarks
SpecMarks == InitMarks /\ [][NextMarks]_vars

\* The thresholds as the window drives them: slider drags and keyboard nudges.
CmdThresholds == \/ \E v \in BlackStops : slider_moved("blackSlider", v)
                 \/ \E v \in WhiteStops : slider_moved("whiteSlider", v)
                 \/ \E d \in {-1, 1} : nudge("blackSlider", d) \/ nudge("whiteSlider", d)
                 \/ push_call \/ set_params_white \/ push_ret \/ push_done
ThresholdFacts == {"moved", "nudges"}
InitThresholds == Constructed /\ watch = ThresholdFacts
NextThresholds == EngineCore \/ CmdOpen({"clipK"}) \/ play \/ CmdThresholds
SpecThresholds == InitThresholds /\ [][NextThresholds]_vars

\* set_params called with any keyword arguments.
CmdSetParams == (\E kwargs \in KwArgs : set_params_lock(kwargs))
                \/ set_params_item \/ set_params_unlock
InitSetParams == Constructed /\ watch = {}
NextSetParams == EngineCore \/ CmdOpen({"clipK"}) \/ play \/ CmdSetParams
SpecSetParams == InitSetParams /\ [][NextSetParams]_vars

\* Exports of every source to every destination, with cancel() at any moment.
InitExport == Constructed /\ watch = {}
NextExport == \/ \E i \in ExportInputs, o \in ExportOutputs : on_export(i, o)
              \/ cancel \/ ExportRun \/ on_export_finished
SpecExport == InitExport /\ [][NextExport]_vars

\* compute_masks_from_luma on every luma array and threshold pair drawn.
InitMasks ==
    /\ Built /\ watch = {}
    /\ call \in {[fn |-> "args", Y |-> Y, black |-> bw[1], white |-> bw[2],
                   ret |-> <<>>] : Y \in LumaArrays, bw \in MaskThresholds}
SpecMasks == InitMasks /\ [][ApplyMasks]_vars

\* zebra_overlay on every frame, mode, threshold pair and phase drawn.
InitZebra ==
    /\ Built /\ watch = {}
    /\ call \in {[fn |-> "args", frame |-> f, mode |-> m, black |-> bw[1],
                   white |-> bw[2], phase |-> ph, ret |-> <<>>, later |-> <<>>] :
                  f \in Frames, m \in Modes, bw \in MaskThresholds, ph \in Phases}
SpecZebra == InitZebra /\ [][ApplyZebra]_vars

\* The analyzer on videos of 0..MaxFrames + 1 readable frames, with every
\* --max-frames from -1 to MaxFrames + 2, with and without --csv.
InitAnalyze ==
    /\ Built /\ watch = {}
    /\ call \in {[fn |-> "main", pc |-> "open", openable |-> o, readable |-> n,
                   max_frames |-> m, csv |-> c, pos |-> 0, rows |-> <<>>, i |-> 0,
                   processed |-> 0, out |-> <<>>] :
                  o \in BOOLEAN, n \in 0..(MaxFrames + 1),
                  m \in (-1)..(MaxFrames + 2), c \in BOOLEAN}
SpecAnalyze == InitAnalyze /\ [][AnalyzeRun]_vars

\* Frame stepping (arrow keys) on a playing or paused source.
StepDeltas == {-1, 1}
StepFacts == {"stepped"}
CmdStep == \/ \E d \in StepDeltas : step_frames(d)
           \/ seek_to_slot \/ seek_to_idx \/ seek_to_phase
InitStep == Constructed /\ watch = StepFacts
NextStep == EngineCore \/ EngineSeek \/ CmdOpen({"clipK"}) \/ play \/ CmdStep
SpecStep == InitStep /\ [][NextStep]_vars

\* The engine with its lock entries as steps, against the commands that take
\* the mutex (open, seek, set_params) and play and pause.
CmdLocked == \/ seek_to_clamp(1) \/ seek_to_slot \/ seek_to_idx \/ seek_to_phase
             \/ set_params_black(40, 200) \/ set_params_white
InitMutex == Constructed /\ watch = {"locks"}
NextMutex == EngineCore \/ EngineSeek \/ RunLock \/ CmdOpen({"clipK"}) \/ play
             \/ pause_cmd \/ CmdLocked
SpecMutex == InitMutex /\ [][NextMutex]_vars

\* Pausing and resuming, with opens at any time; the engine thread is
\* scheduled.
InitPause == Constructed /\ watch = {"sincePause"}
NextPause == EngineCore \/ CmdOpen(Paths) \/ play \/ pause_cmd
SpecPause == InitPause /\ [][NextPause]_vars
FairPause == SpecPause /\ WF_vars(EngineCore)

\* Seeks against open, play and pause, recording where each consumed seek
\* was to land.
InitConsume == Constructed /\ watch = {"sawPlaying", "landed"}
SpecConsume == InitConsume /\ [][NextSeek]_vars

\* The animation phase of the engine under open, play, seek and a change of
\* phase_step to one more than the modulus (each frame wraps), next to an
\* export of the same source.
WrapStep == PhaseMod + 1
CmdPhase == \/ seek_to_clamp(0) \/ seek_to_slot \/ seek_to_idx \/ seek_to_phase
            \/ set_params_lock(<< <<"phase_step", WrapStep>> >>)
            \/ set_params_item \/ set_params_unlock
InitPhase == Constructed /\ watch = {"lastPhase", "fresh"}
NextPhase == \/ EngineCore \/ EngineSeek \/ CmdOpen({"clipK"}) \/ play \/ CmdPhase
             \/ on_export("clipK", "outOk") \/ cancel \/ ExportRun \/ on_export_finished
SpecPhase == InitPhase /\ [][NextPhase]_vars

\* The engine's statistics and the renderer's masks on every frame and
\* threshold pair drawn.
InitStats ==
    /\ Built /\ watch = {}
    /\ call \in {[fn |-> "args", frame |-> f, black |-> bw[1], white |-> bw[2],
                   over |-> 0, under |-> 0, zover |-> 0, zunder |-> 0] :
                  f \in StatFrames, bw \in MaskThresholds}
SpecStats == InitStats /\ [][ApplyStats]_vars

\* ------------------------------------------------------------------------
\* Properties
\* ------------------------------------------------------------------------

\* C1: every parameter snapshot run() takes carries the black and white values
\* left by one completed set_params call (or the constructor's), never the
\* black of one call with the white of another.
C1_SnapshotIsWhole == <<p.black, p.white>> \in obs.committed

\* C1 witness: a frame is being processed with the snapshot of the second of
\* several completed set_params calls.
C1_Witness ==
    /\ pc = "stats"
    /\ <<p.black, p.white>> = <<60, 180>>
    /\ <<40, 200>> \in obs.committed

\* C2: when run() consumes the pending seek it holds the value stored by the
\* most recent seek_to call and repositions the capture to that value (clamped
\* by run()), whatever older unconsumed seeks asked for.
C2_LastSeekWins ==
    /\ (pc = "apply_seek" => obs.taken.n > 0 /\ st = {obs.taken.stored})
    /\ (pc = "seek_emit" => cap_pos = RunClamp(obs.taken.stored, frame_count))

\* C2 witness: two seek_to calls with different destinations were stored before
\* run() consumed one, and the capture has been repositioned.
C2_Witness ==
    /\ pc = "seek_emit"
    /\ obs.taken.n = 2
    /\ obs.taken.first # obs.taken.stored
    /\ cap_pos # RunClamp(obs.taken.first, frame_count)

\* The clamp the specification asks for: [0, frame_count-1] when the frame count
\* is known, else only >= 0.
ClampOf(i, fc) == IF fc > 0 THEN Min(Max(i, 0), fc - 1) ELSE Max(i, 0)

\* C3: the position run() repositions the capture to when it consumes a seek
\* is the requested index clamped with the frame count of the source that is
\* open at that moment.
C3_SeekClampedToOpenSource ==
    pc = "seek_emit" => cap_pos = ClampOf(obs.taken.raw, frame_count)

\* C4: the first frame pair rendered after run() consumed a seek that was
\* issued while playing is rendered with phase 0.
C4_PhaseZeroAfterSeek ==
    (ev.kind = "frames" /\ ev.afterSeek = "playing") => ev.phase = 0

\* The positions of run() between consuming an open request and reporting its
\* outcome.
OpeningPcs == {"release_old", "open_cap", "open_phase", "open_idx", "open_count",
               "open_seek", "open_loop", "open_loop_a", "open_loop_b", "open_loop_w",
               "open_emit"}

\* C5: a new open supersedes the old source: the old capture is released before
\* the new one is opened, at most one capture handle is held at any time, every
\* stats / frame-pair / position event comes from the source whose opened event
\* was the latest, and the path run() takes from the slot is the latest request.
C5_OpenSupersedes ==
    /\ handles <= 1
    /\ (pc = "open_cap" => handles = 0 /\ cap = None)
    /\ (ev.kind \in {"stats", "frames", "pos"} =>
            obs.lastOpenedOk /\ ev.src = obs.lastOpened)
    /\ (ev.kind = "pos" => ev.count = CountOf(obs.lastOpened))
    /\ obs.servedLatest

\* C5 witness: a frame pair of the second source is emitted after it replaced
\* an open first source.
C5_Witness ==
    /\ obs.replaced = "clipK"
    /\ ev.kind = "frames"
    /\ ev.src = "clipU"

\* The latest open request failed and run() is past reporting it.
OpenFailed == obs.lastOpened # None /\ ~obs.lastOpenedOk /\ pc \notin OpeningPcs

\* C6: after a failed open the failure was reported exactly once, no capture is
\* held, no frame / stats / position event is emitted, the loop keeps polling,
\* and an open is only ever attempted for a request made since the last one was
\* consumed (no retry).
C6_OpenFailureClosed ==
    /\ OpenFailed =>
        /\ cap = None /\ handles = 0
        /\ obs.openedEvents = 1
        /\ ev.kind \in {"none", "opened"}
        /\ running /\ pc \in {"loop", "check"}
    /\ obs.servedFresh

\* C6 witness: the failure has been reported for a request that replaced an
\* open source, and the loop is back at its poll.
C6_Witness ==
    /\ OpenFailed
    /\ obs.replaced = "clipK"
    /\ pc = "loop"
    /\ ev.kind = "none"

\* C7 as stated: after opened(True) no frame of the new source is read until a
\* play command, whether the engine was playing or paused before.
C7_PausedAfterOpen == obs.readSinceOpen => obs.playSinceOpen

\* C7 amended: a successful open leaves the pause flag as it was; a frame of
\* the new source is read without a play command only if the engine was
\* playing when opened(True) was emitted.
C7_PauseKeptAcrossOpen ==
    obs.readSinceOpen => (obs.playSinceOpen \/ ~obs.pauseAtOpen)

\* C7 witness: the source was opened while paused and its first frame was read
\* after a play command.
C7_Witness ==
    /\ obs.pauseAtOpen
    /\ obs.playSinceOpen
    /\ obs.readSinceOpen
    /\ pc = "snapshot"

\* run() has returned with the capture released.
Exited == pc = "done" /\ cap = None /\ handles = 0

\* The phase budget of the model is used up, so no further frame is read.
PhaseSpent == phase >= MaxPhase

\* C8: once stop() has been called, at any time after the thread was started,
\* run() eventually returns with the capture released (as far as the phase
\* budget lets the run go).
C8_StopExits == obs.stopCalled ~> (Exited \/ PhaseSpent)

\* C9: while the loop is enabled with A <= B, the frame pair emitted directly
\* after frame B, with no command in between, is frame A.
C9_LoopJumpsAtB ==
    (/\ ev.kind = "frames"
     /\ ev.steady
     /\ ev.loop # <<>>
     /\ ev.prev = {ev.loop[2]}) => ev.read = ev.loop[1]

\* C10: when a read reports end-of-stream while the loop is enabled with A set,
\* the logical index and the capture are repositioned to A.
C10_EofGoesToA ==
    (/\ obs.eof.seen
     /\ obs.eof.done
     /\ obs.eof.loopOn
     /\ obs.eof.a # {}) => (cap_pos = Val(obs.eof.a) /\ frame_idx = Val(obs.eof.a))

\* C11: enabling the loop with A <= B while the position is past B seeks to A
\* at once: when _toggle_loop returns the reported position is A and the
\* pending seek is A (unless run() has taken it already), and the next frame
\* pair emitted is frame A.
C11_EnablePastBSeeksToA ==
    /\ (cpc = "toggle_done" /\ obs.attempt.seeked) =>
            (frame_idx = Val(obs.attempt.a) /\ seek_to \subseteq obs.attempt.a)
    /\ (ev.kind = "frames" /\ ev.jump # {}) => ev.read = Val(ev.jump)

\* C12: an attempt to enable the loop while A is unset, B is unset or A > B
\* ends with the worker's loop flag false and the box unchecked, with the marks
\* the attempt was judged on as they were, and without a seek.
C12_InvalidEnableRejected ==
    (cpc = "toggle_done" /\ obs.attempt.on /\ ~obs.attempt.valid) =>
        /\ ~loop_enabled
        /\ ~win.loopChk
        /\ win.loop_a = obs.attempt.a /\ win.loop_b = obs.attempt.b
        /\ ~obs.attempt.seeked
        /\ seek_to \subseteq obs.attempt.seek

\* C13: when opened(True) is emitted, and no loop handler has written since
\* run() took the open request, the frame index is 0, the loop is disabled and
\* both loop bounds are unset.
C13_LoopResetOnOpen ==
    (obs.atOpen.done /\ ~obs.atOpen.touched) =>
        /\ obs.atOpen.idx = 0
        /\ ~obs.atOpen.on
        /\ obs.atOpen.a = {} /\ obs.atOpen.b = {}

\* C14: with the loop disabled, the step of run() that handles a failed read,
\* or the logical index reaching the frame count, leaves the logical index and
\* the capture position at 0, keeps the capture open and the pause flag as it
\* was, and emits no opened(False).
C14_EofRewinds ==
    [][(/\ pc' = "loop"
        /\ \/ pc = "read" /\ ~loop_enabled
           \/ pc = "eof_set" /\ ~obs.eof.loopOn
           \/ pc = "wrap" /\ ~loop_enabled /\ frame_count > 0
                          /\ frame_idx >= frame_count)
       => (/\ frame_idx' = 0
           /\ cap_pos' = 0
           /\ cap' = cap /\ cap' # None
           /\ handles' = handles
           /\ pause' = pause
           /\ running' = running
           /\ ev'.kind # "opened")]_vars

\* A read failed on a source of known length while the loop was disabled, and
\* the rewind to 0 is complete.
C14_Witness ==
    /\ obs.eof.seen /\ obs.eof.done /\ obs.eof.known /\ ~obs.eof.loopOn
    /\ pc = "loop" /\ frame_idx = 0 /\ cap_pos = 0 /\ ~pause

\* The thresholds lie in the slider ranges, black below white.
Ordered(b, w) == b \in BlackMin..BlackMax /\ w \in WhiteMin..WhiteMax /\ b < w

\* C15: whenever set_params is not in the middle of its writes, the engine's
\* parameters have black < white inside the slider ranges, and so has every
\* snapshot; once the handlers of a slider change have returned, the slider
\* the user changed holds the value it was given and so does its parameter.
C15_ThresholdsOrdered ==
    /\ mutex = "free" => Ordered(params.black, params.white)
    /\ Ordered(p.black, p.white)
    /\ (cpc = "push" /\ win.calls = <<>>) =>
          /\ win[obs.moved.who] = obs.moved.to
          /\ params.black = win.blackSlider
          /\ params.white = win.whiteSlider

\* The black slider was taken to the white slider's value or above it: white
\* has moved to one above, black is where the user put it.
C15_Witness ==
    /\ cpc = "push" /\ win.calls = <<>>
    /\ obs.moved.who = "blackSlider"
    /\ obs.moved.to >= DefaultWhite
    /\ params.black = obs.moved.to
    /\ params.white = params.black + 1
    /\ p = params

\* C16: each turn of set_params's loop writes the named field and no other
\* when the name is a field of the parameter set, and leaves the parameter set
\* as it was, with the same fields, when it is not.
C16_SetParamsExact ==
    [][(cpc = "sp_item" /\ carg # <<>> /\ carg' = Tail(carg)) =>
          IF Head(carg)[1] \in ParamFields
          THEN params' = [params EXCEPT ![Head(carg)[1]] = Head(carg)[2]]
          ELSE params' = params]_vars

\* C17: when an export that was not canceled has finished on a source and a
\* destination it could open, the log is a run of progress values, each in
\* 0..100 and none below its predecessor, ending with 100, followed by one
\* finished(True); the destination holds the source's readable frames in order.
C17_ExportProgress ==
    (/\ exporter.pc = "done"
     /\ ~exporter.cancel
     /\ Openable(exporter.in_path)
     /\ Writable(exporter.out_path)) =>
        LET log == exporter.log
            n == Len(log)
        IN  /\ n >= 2
            /\ log[n].kind = "finished" /\ log[n].ok
            /\ \A k \in 1..(n - 1) :
                  /\ log[k].kind = "progress"
                  /\ log[k].pct \in 0..100
                  /\ k > 1 => log[k - 1].pct <= log[k].pct
            /\ log[n - 1].pct = 100
            /\ exporter.written = [k \in 1..ReadableOf(exporter.in_path) |-> k - 1]

\* Position of the cancel() call in the export's log, 0 if there was none.
CancelAt ==
    IF \E k \in 1..Len(exporter.log) : exporter.log[k].kind = "cancel"
    THEN CHOOSE k \in 1..Len(exporter.log) : exporter.log[k].kind = "cancel"
    ELSE 0

\* The finished events in the export's log.
FinishedEvents == SelectSeq(exporter.log, LAMBDA e : e.kind = "finished")

C19_ExportOpenFailure ==
    (/\ exporter.pc = "done"
     /\ ~Openable(exporter.in_path) \/ ~Writable(exporter.out_path)) =>
        /\ Len(FinishedEvents) = 1
        /\ ~FinishedEvents[1].ok
        /\ FinishedEvents[1].msg \in {"Cannot open input video.",
                                       "Cannot open output for writing."}
        /\ \A k \in 1..Len(exporter.log) : exporter.log[k].kind # "progress"
        /\ exporter.i = 0
        /\ exporter.written = <<>>
        /\ ~exporter.cap
        /\ ~exporter.wr

\* The input opened and the writer did not: the capture has been released.
C19_Witness ==
    /\ exporter.pc = "done"
    /\ Openable(exporter.in_path)
    /\ ~Writable(exporter.out_path)
    /\ Len(FinishedEvents) = 1
    /\ ~exporter.cap

\* C20: for thresholds with black < white, no pixel is selected by both masks
\* that compute_masks_from_luma returns.
C20_MasksDisjoint ==
    (call.fn = "compute_masks_from_luma" /\ call.black < call.white) =>
        \A k \in DOMAIN call.Y : ~(call.ret.under[k] /\ call.ret.over[k])

\* An array with a pixel on the black threshold and one on the white threshold:
\* each is selected by its own mask only.
C20_Witness ==
    /\ call.fn = "compute_masks_from_luma"
    /\ call.black < call.white
    /\ \E k \in DOMAIN call.Y : call.Y[k] = call.black /\ call.ret.under[k]
    /\ \E k \in DOMAIN call.Y : call.Y[k] = call.white /\ call.ret.over[k]

\* C21: with mode Both, a frame without a pixel of luma <= black or
\* luma >= white comes back unchanged, whatever the phase.
C21_UnmaskedFrameUnchanged ==
    (/\ call.fn = "zebra_overlay"
     /\ call.mode = "Both"
     /\ \A pos \in DOMAIN call.frame :
           /\ Luma(call.frame[pos]) > 10000 * call.black
           /\ Luma(call.frame[pos]) < 10000 * call.white) => call.ret = call.frame

\* A frame of pixels between the thresholds, its first pixel on a stripe.
C21_Witness ==
    /\ call.fn = "zebra_overlay"
    /\ call.mode = "Both"
    /\ \A pos \in DOMAIN call.frame :
          /\ Luma(call.frame[pos]) > 10000 * call.black
          /\ Luma(call.frame[pos]) < 10000 * call.white
    /\ (call.phase % Period) < Duty
    /\ call.ret = call.frame

\* C22: the output for phase p equals the output for phase p + 14.
C22_PhasePeriodic ==
    call.fn = "zebra_overlay" => call.ret = call.later

\* A masked pixel that the stripe at this phase changes, with the phase about
\* to wrap around the period.
C22_Witness ==
    /\ call.fn = "zebra_overlay"
    /\ call.phase < 0
    /\ call.ret # call.frame
    /\ call.ret = call.later

\* C23: for the three modes, an output pixel differs from the input pixel only
\* where the mode's mask selects it: luma >= white for Over, luma <= black for
\* Under, either for Both, with the thresholds as the function normalises them.
C23_OnlyMaskedChange ==
    (/\ call.fn = "zebra_overlay"
     /\ call.mode \in {"Over", "Under", "Both"}) =>
        \A pos \in DOMAIN call.frame :
            call.ret[pos] # call.frame[pos] =>
                \/ call.mode \in {"Over", "Both"}
                   /\ Luma(call.frame[pos]) >= 10000 * ZebraWhite(call.black, call.white)
                \/ call.mode \in {"Under", "Both"}
                   /\ Luma(call.frame[pos]) <= 10000 * ZebraBlack(call.black)

\* A frame with a changed pixel and an untouched one.
C23_Witness ==
    /\ call.fn = "zebra_overlay"
    /\ call.mode = "Over"
    /\ call.black < call.white
    /\ \E pos \in DOMAIN call.frame : call.ret[pos] # call.frame[pos]
    /\ \E pos \in DOMAIN call.frame :
          /\ Luma(call.frame[pos]) <= 10000 * call.black
          /\ call.ret[pos] = call.frame[pos]

\* C24: the analyzer's rows are the frames read, in order, with indices
\* 0, 1, 2, ...; when it ends there are as many rows as readable frames if
\* max_frames <= 0 and min(max_frames, readable frames) otherwise, and the CSV
\* holds the same rows in the same order.
C24_AnalyzerRows ==
    call.fn = "main" =>
        /\ \A k \in 1..Len(call.rows) :
              call.rows[k].idx = k - 1 /\ call.rows[k].frame = k - 1
        /\ call.pc = "end" =>
              /\ Len(call.rows) = IF call.max_frames <= 0
                                  THEN call.readable
                                  ELSE Min(call.max_frames, call.readable)
              /\ call.csv =>
                    /\ Len(call.out) = Len(call.rows) + 1
                    /\ \A k \in 1..Len(call.rows) : call.out[k + 1] = call.rows[k].idx

\* A capped run that leaves readable frames unread, and wrote its CSV.
C24_Witness ==
    /\ call.fn = "main" /\ call.pc = "end" /\ call.csv
    /\ call.max_frames > 1
    /\ call.readable > call.max_frames
    /\ Len(call.rows) = call.max_frames
    /\ Len(call.out) = call.max_frames + 1

\* C25: the frame index and the phase are written by the engine thread only:
\* a step of a control command (a step that moves the caller's position in
\* seek_to) changes neither.
C25_EngineOwnsPosition ==
    [][cpc' # cpc => (frame_idx' = frame_idx /\ phase' = phase)]_vars

\* C26: every access to the pending-seek slot is made under the mutex: a step
\* that changes the slot is a step of the control thread inside seek_to, which
\* holds the mutex, or a step of the engine taken while the mutex is free for
\* it to take.
C26_SeekSlotUnderMutex ==
    [][seek_to' # seek_to => (cpc' # cpc \/ mutex = "free")]_vars

\* C27: the stats event and the position event of an iteration carry the
\* capture index of the frame that the iteration read.
C27_EventsCarryReadIndex ==
    /\ ev.kind = "stats" => ev.idx = ev.read
    /\ (ev.kind = "pos" /\ pc = "advance") => ev.idx = Val(frame)

\* The engine idles paused, and the control thread is in no command.
IdlePaused == pause /\ pc \in {"loop", "check"} /\ cpc = "idle"

\* C28: after step(delta), called at position p on an open source, the engine
\* comes to rest paused with the position at clamp(p + delta), whatever the
\* iteration in flight did meanwhile.
C28_StepLandsOnTarget ==
    (IdlePaused /\ obs.stepped.on /\ obs.stepped.settled) =>
        frame_idx = SeekClamp(obs.stepped.pos + obs.stepped.delta, frame_count)

\* C29: while the engine's loop flag is set, both of its loop bounds are set
\* and A <= B.
C29_LoopBoundsValid ==
    loop_enabled => /\ loop_a # {} /\ loop_b # {}
                    /\ Val(loop_a) <= Val(loop_b)

\* A readable source is open and the engine is not paused.
Playing == cap \in Readable /\ ~pause

\* C30: if from some point on a readable source is open and the engine stays
\* Playing, frame pairs are emitted again and again (as far as the phase
\* budget lets the run go).
C30_PlayingEmits == <>[]Playing => []<>(ev.kind = "frames" \/ PhaseSpent)

\* C31: the engine holds the mutex only inside its three locked sections (the
\* read-and-clear of the pending open, the read-and-clear of the pending seek,
\* the copy of the parameters), never where it sleeps, opens or reads the
\* capture, processes a frame or emits; and its next step after taking the
\* mutex gives it back, so a command waits for one such section at most.
C31_EngineLocksBriefly ==
    /\ [](mutex = "eng" => pc \in {"loop", "take_seek", "snapshot"})
    /\ [][(mutex = "eng" /\ pc' # pc) => mutex' = "free"]_vars

\* A command is kept waiting: the engine is inside its parameter copy while
\* the control thread is between two commands.
C31_Witness ==
    /\ mutex = "eng" /\ pc = "snapshot" /\ cpc = "idle"
    /\ params.black = 40

\* C32: between the return of pause() and the next play() the engine reads the
\* capture once at most and emits one frame pair at most (the iteration that
\* had passed the pause test), and an open requested while paused is still
\* taken (as far as the phase budget lets the run go).
C32_PauseStopsReading ==
    /\ [](obs.sincePause.on => obs.sincePause.reads <= 1 /\ obs.sincePause.pairs <= 1)
    /\ ((pause /\ pending_open # None) ~> (pending_open = None \/ PhaseSpent))

\* Paused by pause() with the frame in flight emitted, the engine takes an open
\* request.
C32_Witness ==
    /\ obs.sincePause.on /\ obs.sincePause.pairs = 1 /\ pause
    /\ pc = "release_old" /\ path_req = "clipU" /\ cap = "clipK"

\* Where a consumed seek is to land: its value clamped to the open source.
Destination ==
    IF frame_count > 0
    THEN Max(0, Min(Val(obs.landed), frame_count - 1))
    ELSE Max(0, Val(obs.landed))

\* C33: a pending seek leaves its slot only at the start of an iteration that
\* found a capture open and the pause flag clear, or when a source has been
\* opened successfully, which always empties the slot; a consumed seek has put
\* the capture at its clamped destination before the iteration reads, and the
\* frame that iteration reads is the one at that destination.
C33_SeekConsumedBetweenReads ==
    /\ [][(seek_to # {} /\ seek_to' = {}) =>
              \/ pc = "take_seek" /\ obs.sawPlaying /\ cap # None
              \/ pc = "open_seek" /\ cap = path_req]_vars
    /\ [][(pc = "open_seek" /\ pc' # pc) => seek_to' = {}]_vars
    /\ [](pc = "seek_emit" => cap_pos = Destination)
    /\ [][(pc = "read" /\ pc' = "snapshot" /\ obs.landed # {}) =>
              frame' = {Destination}]_vars

\* A seek stored while an open was in progress, under the unknown frame count,
\* has been consumed and clamped to the new source, whose last frame is about
\* to be read.
C33_Witness ==
    /\ pc = "read" /\ obs.landed = {MaxFrames + 2} /\ obs.sawPlaying
    /\ frame_count = MaxFrames /\ cap_pos = MaxFrames - 1

\* C34: the phase is always in 0..9999; the first frame after opened(True) is
\* rendered with phase 0; a frame rendered with no open or seek since the
\* previous one has the previous frame's phase plus the phase_step of that
\* frame's snapshot, modulo 10000; the frames of an export are rendered by the
\* same rule, starting from 0.
C34_PhaseRule ==
    /\ phase \in 0..9999
    /\ ev.kind = "frames" =>
          /\ ev.fresh => ev.phase = 0
          /\ ev.last.on => ev.phase = (ev.last.ph + ev.last.step) % 10000
    /\ exporter.phase \in 0..9999
    /\ \A k \in 1..Len(exporter.phases) :
          exporter.phases[k] = IF k = 1 THEN 0
                               ELSE (exporter.phases[k - 1] + exporter.phase_step) % 10000

\* A frame whose phase wrapped: the previous frame had phase 2 and its snapshot
\* the step 10001; the export has rendered its second frame.
C34_Witness ==
    /\ ev.kind = "frames" /\ ev.last.on /\ ev.last.ph = DefaultPhaseStep
    /\ ev.last.step = WrapStep /\ ev.phase = DefaultPhaseStep + 1
    /\ Len(exporter.phases) = 2 /\ exporter.phases[2] = DefaultPhaseStep

\* C35: for ordered thresholds, the number of pixels behind the over fraction
\* of statsReady is the number of pixels zebra_overlay masks as over, and
\* likewise for under.
C35_StatsMatchMasks ==
    (call.fn = "stats" /\ call.black < call.white) =>
        call.over = call.zover /\ call.under = call.zunder

\* C36: a position or stats event emitted for a source of known frame count
\* carries an index in 0..frame_count-1.
C36_EventIndexInRange ==
    (ev.kind \in {"stats", "pos"} /\ frame_count > 0) => ev.idx \in 0..(frame_count - 1)

====
